---- MODULE Spec2Model ----
(***************************************************************************)
(* A model of internal/runner/runner.go of go-prettier: Runner.Run         *)
(* resolves the editor-config and the formatter-config, expands the        *)
(* patterns, fans one errgroup task out per expanded path, joins them and  *)
(* prints the check summary.  Runner.format is the body of a task.         *)
(***************************************************************************)
EXTENDS Naturals, Sequences, FiniteSets, Bags

(***************************************************************************)
(* Bounds of the model.                                                    *)
(***************************************************************************)
\* Number of ancestor directories above the working directory.
MaxDepth == 1
\* Largest number of config files present in the directory chain.
MaxCfgFiles == 2
\* Largest number of patterns on the command line.
MaxPatterns == 2

(***************************************************************************)
(* The universe of values.                                                 *)
(***************************************************************************)
\* Directories on the path from the working directory (0) to the root.
Dirs == 0..MaxDepth

\* The files of the tree the patterns range over, in lexical order.
Files == <<"a.js", "b.md">>

FileSet == {Files[k] : k \in 1..Len(Files)}

\* runner.go:107, the conventional names in the order Run tries them.
ConfigNames == <<".prettierrc", ".prettierrc.json", ".prettierrc.yaml", ".prettierrc.yml", ".prettierrc.toml">>

EditorConfigName == ".editorconfig"

AllNames == {ConfigNames[k] : k \in 1..Len(ConfigNames)} \cup {EditorConfigName}

\* A path of a config file: a directory of the chain and a name in it.
CfgPaths == [dir : Dirs, name : AllNames]

\* The path --config names.
ExplicitPath == [dir |-> 0, name |-> "custom.rc"]

\* The empty string findConfigFile returns when it finds nothing.
NoPath == [dir |-> 0, name |-> ""]

\* A configuration document: a finite map from option name to value.
EmptyDoc == [k \in {} |-> ""]

Doc1(k, v) == [x \in {k} |-> v]

Doc2(k1, v1, k2, v2) == [x \in {k1, k2} |-> IF x = k1 THEN v1 ELSE v2]

\* The documents a config file of the model may hold.
UserDocs == {EmptyDoc, Doc1("tabWidth", "4"), Doc1("useTabs", "true"),
             Doc2("tabWidth", "4", "filepath", "evil.js"), Doc1("parser", "a: b")}

\* The bytes of a config file: unreadable, or text in one syntax holding a
\* document, or text no decoder accepts.
CfgContents == {[readable |-> FALSE, syntax |-> "none", doc |-> EmptyDoc]}
               \cup {[readable |-> TRUE, syntax |-> "garbage", doc |-> EmptyDoc]}
               \cup [readable : {TRUE}, syntax : {"json", "yaml", "toml"}, doc : UserDocs]

\* Errors.  errCheckFailed and errInvalidConfigFile are the two sentinels
\* of runner.go:26-29; every other error carries its origin.
Nil == [kind |-> "nil", of |-> "-"]

errCheckFailed == [kind |-> "checkFailed", of |-> "-"]

errInvalidConfigFile == [kind |-> "invalidConfig", of |-> "-"]

HardErr(k, o) == [kind |-> k, of |-> o]

IsHard(e) == e # Nil /\ e # errCheckFailed

\* The editor-config definitions a parsed .editorconfig may yield for a
\* file: indent style and size ("" when the key is absent).
EditorDefs == {[indent_style |-> "", indent_size |-> ""],
               [indent_style |-> "tab", indent_size |-> "2"],
               [indent_style |-> "space", indent_size |-> ""]}

NoEditorCfg == [parsed |-> FALSE, lookupOk |-> FALSE,
                def |-> [indent_style |-> "", indent_size |-> ""]]

\* A parsed editor-config: the definition it gives every file, and whether
\* GetDefinitionForFilename succeeds.
EditorCfgs == [parsed : {TRUE}, lookupOk : {TRUE}, def : EditorDefs]
              \cup {[parsed |-> TRUE, lookupOk |-> FALSE,
                     def |-> [indent_style |-> "", indent_size |-> ""]]}

\* A pattern of the command line: a literal file, the directory holding
\* the files, or a glob that matches nothing.
Patterns == [kind : {"file"}, file : FileSet]
            \cup {[kind |-> "dir", file |-> "."], [kind |-> "glob", file |-> "*.zz"]}

RECURSIVE SeqsUpTo(_, _)
SeqsUpTo(S, n) ==
  IF n = 0 THEN {<<>>}
  ELSE LET shorter == SeqsUpTo(S, n - 1)
       IN shorter \cup {Append(s, x) : s \in {t \in shorter : Len(t) = n - 1}, x \in S}

VARIABLES
  ctx,             \* Run's ctx: whether it is cancelled, and who ran when it was
  args,            \* RunArgs
  cfgFs,           \* the config files present in the directory chain
  fs,              \* the files of the tree: contents and permission bits
  runPc,           \* where Run is
  eCfg,            \* Run's eCfg
  pCfg,            \* Run's pCfg
  loaded,          \* the calls of loadConfigFile: the path and the bytes it held
  branch,          \* the arms of the config switch Run has taken, in order
  paths,           \* Run's paths, the result of expandPatterns
  spawned,         \* number of tasks g.Go has started
  task,            \* per expanded path: the task's locals and position
  gErr,            \* errgroup.Group.err
  numCheckFailed,  \* Run's atomic counter
  firstFailed,     \* the first task that returned an error to the errgroup, 0 if none
  runErr,          \* the error Run returned
  stdout,          \* what was written to standard output, in order
  log              \* the bag of lines logged through slog

vars == <<ctx, args, cfgFs, fs, runPc, eCfg, pCfg, loaded, branch, paths, spawned,
          task, gErr, numCheckFailed, firstFailed, runErr, stdout, log>>

(***************************************************************************)
(* Pure helpers of runner.go.                                              *)
(***************************************************************************)
\* runner.go:227-245.  os.Stat succeeds on the files present in cfgFs; the
\* walk stops at the root, the directory that is its own parent.
RECURSIVE findConfigFile(_, _)
findConfigFile(dir, name) ==
  IF [dir |-> dir, name |-> name] \in cfgFs THEN [dir |-> dir, name |-> name]
  ELSE IF dir = MaxDepth THEN NoPath
  ELSE findConfigFile(dir + 1, name)

\* runner.go:107-116.  The first name of the list, in list order, that
\* findConfigFile finds anywhere on the way up; NoPath when none is found.
RECURSIVE discoverFrom(_)
discoverFrom(k) ==
  IF k > Len(ConfigNames) THEN NoPath
  ELSE IF findConfigFile(0, ConfigNames[k]) # NoPath THEN findConfigFile(0, ConfigNames[k])
  ELSE discoverFrom(k + 1)

discoverConfig == discoverFrom(1)

\* The values of the model that hold a colon followed by a space.
ColonValues == {"a: b"}

\* What the YAML decoder reads in TOML text holding doc.  No text at all is
\* the empty mapping.  One line  k = "a: b"  is a block mapping of one pair:
\* a plain scalar runs up to the first colon that a space follows, so the
\* key is  k = "a  and the value  b" .  Any other text of the model is a
\* plain scalar, or a plain scalar over several lines, which does not
\* decode into a map.
yamlOfToml(doc) ==
  IF doc = EmptyDoc THEN [ok |-> TRUE, doc |-> EmptyDoc]
  ELSE IF Cardinality(DOMAIN doc) = 1 /\ \A k \in DOMAIN doc : doc[k] \in ColonValues
  THEN LET k == CHOOSE x \in DOMAIN doc : TRUE
       IN [ok |-> TRUE, doc |-> Doc1(k \o " = \"a", "b\"")]
  ELSE [ok |-> FALSE, doc |-> EmptyDoc]

\* yaml.Unmarshal(pCfgBytes, &res) of runner.go:258, called on the bytes
\* whatever their syntax: YAML and JSON text decode to their document, TOML
\* text to what the YAML decoder reads in it.
yamlUnmarshal(c) ==
  IF c.syntax \in {"json", "yaml"} THEN [ok |-> TRUE, doc |-> c.doc]
  ELSE IF c.syntax = "toml" THEN yamlOfToml(c.doc)
  ELSE [ok |-> FALSE, doc |-> EmptyDoc]

\* runner.go:258-261: yaml.Unmarshal returned no error.
yamlOk(c) == yamlUnmarshal(c).ok

\* toml.Unmarshal accepts TOML text (runner.go:263-265).
tomlOk(c) == c.syntax = "toml"

\* runner.go:247-271: the document and the error for a file holding c.
loadConfigFile(path, c) ==
  IF ~c.readable THEN [doc |-> EmptyDoc, err |-> HardErr("readConfig", path.name)]
  ELSE IF yamlOk(c) THEN [doc |-> yamlUnmarshal(c).doc, err |-> Nil]
  ELSE IF tomlOk(c) THEN [doc |-> c.doc, err |-> Nil]
  ELSE [doc |-> EmptyDoc, err |-> errInvalidConfigFile]

\* The switch with the disabling flag tested first.
configBranchDisableFirst(a) ==
  IF a.NoConfig THEN "none"
  ELSE IF a.Config # NoPath THEN "explicit"
  ELSE "auto"

\* runner.go:97-106: the arm of the switch Run takes.
configBranch(a) ==
  IF a.Config # NoPath THEN "explicit"
  ELSE IF a.NoConfig THEN "none"
  ELSE "auto"

\* A Run that goes on whatever loadConfigFile returned.
loadAbortsNever(r) == FALSE

\* What Run does with the result of loadConfigFile (runner.go:100-103 and
\* 110-113): a non-nil error is returned from Run.
loadAborts(r) == r.err # Nil

(***************************************************************************)
(* expandPatterns: one entry per pattern result, first occurrence kept.    *)
(***************************************************************************)
ExpandedPath(f, ign, e) == [filePath |-> f, ignoreUnknown |-> ign, error |-> e]

expandOne(p, noError) ==
  CASE p.kind = "file" -> <<ExpandedPath(p.file, FALSE, "")>>
    [] p.kind = "dir" -> [k \in 1..Len(Files) |-> ExpandedPath(Files[k], TRUE, "")]
    [] OTHER -> IF noError THEN <<>>
                ELSE <<ExpandedPath("", FALSE, "unmatched")>>

RECURSIVE dedupe(_, _)
dedupe(s, seen) ==
  IF s = <<>> THEN <<>>
  ELSE IF Head(s).error = "" /\ Head(s).filePath \in seen THEN dedupe(Tail(s), seen)
  ELSE <<Head(s)>> \o dedupe(Tail(s), seen \cup {Head(s).filePath})

RECURSIVE expandAll(_, _)
expandAll(ps, noError) ==
  IF ps = <<>> THEN <<>>
  ELSE expandOne(Head(ps), noError) \o expandAll(Tail(ps), noError)

\* An expansion that keeps every match of every pattern.
expandPatternsKeepAll(a) == expandAll(a.Patterns, a.NoErrorOnUnmatchedPattern)

expandPatterns(a) == dedupe(expandAll(a.Patterns, a.NoErrorOnUnmatchedPattern), {})

(***************************************************************************)
(* The state after NewRunner, before Run: the arguments and the file       *)
(* system are the inputs of the run.                                       *)
(***************************************************************************)
\* The locals of a task: its position, the serialized config, the stat
\* result, the bytes read, the engine's status and output, the error it
\* returns; starts counts the times its closure was entered.
NewTask == [pc |-> "idle", starts |-> 0, cfg |-> {}, fi |-> "", in |-> "", status |-> "",
            out |-> "", res |-> Nil]

InitFs ==
  [f \in FileSet |-> [content |-> "raw", mode |-> IF f = Files[1] THEN "0644" ELSE "0755"]]

ArgSet(patternSeqs, configs, flags) ==
  [Patterns : patternSeqs, Config : configs, NoConfig : flags.NoConfig,
   NoEditorConfig : flags.NoEditorConfig, Check : flags.Check, Write : flags.Write,
   IgnoreUnknown : flags.IgnoreUnknown,
   NoErrorOnUnmatchedPattern : flags.NoErrorOnUnmatchedPattern]

InitRun ==
  /\ ctx = [done |-> FALSE, started |-> {}, inflight |-> {}]
  /\ fs = InitFs
  /\ runPc = "editorconfig"
  /\ eCfg = NoEditorCfg
  /\ pCfg = EmptyDoc
  /\ loaded = <<>>
  /\ branch = <<>>
  /\ paths = <<>>
  /\ spawned = 0
  /\ task = <<>>
  /\ gErr = Nil
  /\ numCheckFailed = 0
  /\ firstFailed = 0
  /\ runErr = Nil
  /\ stdout = <<>>
  /\ log = EmptyBag

\* The runs that exercise the fan-out: any patterns and output flags, with
\* no config file in the directory chain.
Init ==
  /\ args \in ArgSet(SeqsUpTo(Patterns, MaxPatterns) \ {<<>>}, {NoPath},
                     [NoConfig |-> {FALSE}, NoEditorConfig |-> {TRUE},
                      Check |-> BOOLEAN, Write |-> BOOLEAN, IgnoreUnknown |-> BOOLEAN,
                      NoErrorOnUnmatchedPattern |-> BOOLEAN])
  /\ cfgFs = {}
  /\ InitRun

\* The runs that exercise the configuration: any config flags and any
\* placement of at most MaxCfgFiles config files, over one literal file.
InitCfg ==
  /\ args \in ArgSet({<<[kind |-> "file", file |-> Files[1]]>>}, {NoPath, ExplicitPath},
                     [NoConfig |-> BOOLEAN, NoEditorConfig |-> BOOLEAN,
                      Check |-> {FALSE}, Write |-> {FALSE}, IgnoreUnknown |-> {FALSE},
                      NoErrorOnUnmatchedPattern |-> {FALSE}])
  /\ cfgFs \in {s \in SUBSET CfgPaths : Cardinality(s) <= MaxCfgFiles}
  /\ InitRun

\* The runs that exercise the shared configuration: both files, processed
\* by two concurrent tasks, with a config file named by --config and an
\* editor-config in the working directory.
InitShared ==
  /\ args \in ArgSet({<<[kind |-> "dir", file |-> "."]>>,
                       <<[kind |-> "file", file |-> Files[2]], [kind |-> "file", file |-> Files[1]]>>},
                      {ExplicitPath},
                      [NoConfig |-> {FALSE}, NoEditorConfig |-> BOOLEAN,
                       Check |-> {FALSE}, Write |-> {FALSE}, IgnoreUnknown |-> {FALSE},
                       NoErrorOnUnmatchedPattern |-> {FALSE}])
  /\ cfgFs = {[dir |-> 0, name |-> EditorConfigName]}
  /\ InitRun

(***************************************************************************)
(* Run, up to the fan-out.                                                 *)
(***************************************************************************)
\* runner.go:84-95.  Opening or parsing the file found may fail; both
\* failures leave eCfg nil.
RunEditorConfig ==
  /\ runPc = "editorconfig"
  /\ IF ~args.NoEditorConfig /\ findConfigFile(0, EditorConfigName) # NoPath
     THEN \E e \in EditorCfgs \cup {NoEditorCfg} : eCfg' = e
     ELSE eCfg' = NoEditorCfg
  /\ runPc' = "config"
  /\ UNCHANGED <<ctx, args, cfgFs, fs, pCfg, loaded, branch, paths, spawned, task, gErr,
                 numCheckFailed, firstFailed, runErr, stdout, log>>

CfgWarn(m, path) == [level |-> "warn", msg |-> m, of |-> path.name, n |-> 0]

\* The log lines of loadConfigFile (runner.go:252-253 and 267-269).
loadLog(path, r) ==
  IF r.err = Nil THEN EmptyBag
  ELSE IF r.err = errInvalidConfigFile
  THEN SetToBag({CfgWarn("Invalid config file", path), CfgWarn("decode error", path)})
  ELSE SetToBag({CfgWarn("Unable to read config file", path), CfgWarn("read error", path)})

\* Run calls loadConfigFile(path) on a file holding c (runner.go:99-103 and
\* 109-114).
LoadInto(path, c) ==
  LET r == loadConfigFile(path, c)
  IN /\ loaded' = Append(loaded, [path |-> path, c |-> c])
     /\ log' = log (+) loadLog(path, r)
     /\ IF loadAborts(r)
        THEN /\ runErr' = r.err
             /\ runPc' = "done"
             /\ pCfg' = pCfg
        ELSE /\ runErr' = runErr
             /\ runPc' = "expand"
             /\ pCfg' = r.doc

\* runner.go:97-117.
RunConfig ==
  /\ runPc = "config"
  /\ branch' = Append(branch, configBranch(args))
  /\ CASE configBranch(args) = "explicit" ->
            \E c \in CfgContents : LoadInto(args.Config, c)
       [] configBranch(args) = "none" ->
            /\ runPc' = "expand"
            /\ UNCHANGED <<pCfg, loaded, runErr, log>>
       [] OTHER ->
            IF discoverConfig # NoPath
            THEN \E c \in CfgContents : LoadInto(discoverConfig, c)
            ELSE /\ runPc' = "expand"
                 /\ UNCHANGED <<pCfg, loaded, runErr, log>>
  /\ UNCHANGED <<ctx, args, cfgFs, fs, eCfg, paths, spawned, task, gErr, numCheckFailed,
                 firstFailed, stdout>>

\* runner.go:119-123.
RunExpand ==
  /\ runPc = "expand"
  /\ paths' = expandPatterns(args)
  /\ task' = [i \in 1..Len(expandPatterns(args)) |-> NewTask]
  /\ stdout' = IF args.Check
               THEN Append(stdout, [msg |-> "Checking formatting...", of |-> "-"])
               ELSE stdout
  /\ runPc' = "spawn"
  /\ UNCHANGED <<ctx, args, cfgFs, fs, eCfg, pCfg, loaded, branch, spawned, gErr,
                 numCheckFailed, firstFailed, runErr, log>>

\* runner.go:128-129: g.Go starts the task of the next path.
RunSpawn ==
  /\ runPc = "spawn"
  /\ spawned < Len(paths)
  /\ spawned' = spawned + 1
  /\ task' = [task EXCEPT ![spawned + 1].pc = "start"]
  /\ UNCHANGED <<ctx, args, cfgFs, fs, runPc, eCfg, pCfg, loaded, branch, paths, gErr,
                 numCheckFailed, firstFailed, runErr, stdout, log>>

(***************************************************************************)
(* Runner.format, the body of a task.                                      *)
(***************************************************************************)
\* The engine option names the editor-config keys map onto.
fillEditorConfig(def, cfg) ==
  LET style == IF def.indent_style = "tab" THEN Doc1("useTabs", "true")
               ELSE IF def.indent_style = "space" THEN Doc1("useTabs", "false")
               ELSE EmptyDoc
      size == IF def.indent_size # "" THEN Doc1("tabWidth", def.indent_size) ELSE EmptyDoc
  IN [k \in DOMAIN cfg \cup DOMAIN style \cup DOMAIN size |->
        IF k \in DOMAIN size THEN size[k]
        ELSE IF k \in DOMAIN style THEN style[k]
        ELSE cfg[k]]

\* The formatter-config document laid over dst: its keys win.
mergePrettierConfig(dst, src, path) ==
  [k \in DOMAIN dst \cup DOMAIN src |-> IF k \in DOMAIN src THEN src[k] ELSE dst[k]]

\* runner.go:165.
setFilepath(cfg, path) ==
  [k \in DOMAIN cfg \cup {"filepath"} |-> IF k = "filepath" THEN path ELSE cfg[k]]

\* The file path set before the formatter-config is laid over the document.
mergedCfgFilepathFirst(path, e, userCfg) ==
  LET m0 == EmptyDoc
      m1 == IF e.parsed /\ e.lookupOk THEN fillEditorConfig(e.def, m0) ELSE m0
  IN mergePrettierConfig(setFilepath(m1, path), userCfg, path)

\* runner.go:155-165: the document format builds for one file.
mergedCfg(path, e, userCfg) ==
  LET m0 == EmptyDoc
      m1 == IF e.parsed /\ e.lookupOk THEN fillEditorConfig(e.def, m0) ELSE m0
      m2 == mergePrettierConfig(m1, userCfg, path)
  IN setFilepath(m2, path)

\* A merge done in place, in the map Run shares between the tasks.
userCfgAfterFormatInPlace(path, e, userCfg) == mergedCfg(path, e, userCfg)

\* runner.go:155-165: what format leaves in userCfg, the map Run shares
\* between the tasks.  format allocates its own mergedCfg and writes the
\* editor-config keys, the formatter-config keys and filepath into that.
userCfgAfterFormat(path, e, userCfg) == userCfg

\* runner.go:166: json.Marshal of a map, the set of its key/value members.
jsonMarshal(doc) == {<<k, doc[k]>> : k \in DOMAIN doc}

\* What the engine may do with the bytes it is given (runner.go:198): exit
\* with status 10, fail in any other way, or succeed with some output.
EngineOutcomes(in) ==
  {[status |-> "exit10", out |-> ""], [status |-> "fail", out |-> ""]}
  \cup [status : {"ok"}, out : {in, "fmt"}]

\* A warning suppressed only when both flags are set.
warnUnknownEither(ignoreUnknown, pathIgnoreUnknown) == ~ignoreUnknown \/ ~pathIgnoreUnknown

\* runner.go:202: whether the status-10 warning is logged.
warnUnknown(ignoreUnknown, pathIgnoreUnknown) == ~ignoreUnknown /\ ~pathIgnoreUnknown

\* Check mode treated as a mode that writes.
outputModeCheckWrites(write, check) ==
  IF write \/ check THEN "write" ELSE "print"

\* runner.go:211-217: what format does with the engine's output.
outputMode(write, check) ==
  IF write THEN "write"
  ELSE IF ~check THEN "print"
  ELSE "none"

\* A write that appends to the file instead of replacing its bytes.
writeFileAppend(file, data, perm) ==
  [content |-> file.content \o data, mode |-> file.mode]

\* os.WriteFile, as called at runner.go:212, when it succeeds on a file
\* that exists: the bytes are replaced by data; perm applies only to a
\* file the call creates, so the permission bits stay as they are.
writeFile(file, data, perm) ==
  [content |-> data, mode |-> file.mode]

\* The comparison of runner.go:219 inverted.
checkResultInverted(check, in, out) ==
  IF check /\ in = out THEN errCheckFailed ELSE Nil

\* runner.go:219-224: the result of format after the output step.
checkResult(check, in, out) ==
  IF check /\ in # out THEN errCheckFailed ELSE Nil

\* A closure that counts every error format returns.
isCheckFailedAnyError(e) == e # Nil

\* runner.go:135: errors.Is(err, errCheckFailed).
isCheckFailed(e) == e = errCheckFailed

\* An errgroup that keeps the last error instead of the first.
groupErrLast(old, res) == IF res # Nil THEN res ELSE old

\* errgroup.Group.Go, as used at runner.go:129: the first non-nil error a
\* task returns is kept (errOnce), later ones are dropped.
groupErr(old, res) == IF res # Nil /\ old = Nil THEN res ELSE old

\* A join that returns as soon as one task has failed.
waitReadyFirstError(t) ==
  \/ \A i \in DOMAIN t : t[i].pc = "done"
  \/ \E i \in DOMAIN t : t[i].pc = "done" /\ t[i].res # Nil

\* errgroup.Group.Wait, as used at runner.go:141: blocks until every task
\* started with Go has returned.
waitReady(t) == \A i \in DOMAIN t : t[i].pc = "done"

Tasks == DOMAIN task

Warn(m, f) == [level |-> "warn", msg |-> m, of |-> f, n |-> 0]

\* The log after one more line.
Logged(e) == log (+) SetToBag({e})

\* A closure that takes every expanded path for a file.
hasErrorNever(p) == FALSE

\* runner.go:130: the expanded path carries a resolution error.
hasError(p) == p.error # ""

\* runner.go:130-133 and 154-170.
TaskStart(i) ==
  /\ task[i].pc = "start"
  /\ IF hasError(paths[i])
     THEN /\ log' = Logged([level |-> "error", msg |-> paths[i].error, of |-> "-", n |-> 0])
          /\ pCfg' = pCfg
          /\ task' = [task EXCEPT ![i].pc = "exit",
                                  ![i].starts = @ + 1,
                                  ![i].res = HardErr("resolution", paths[i].error)]
     ELSE /\ log' = log
          /\ pCfg' = userCfgAfterFormat(paths[i].filePath, eCfg, pCfg)
          /\ task' = [task EXCEPT ![i].pc = "stat",
                                  ![i].starts = @ + 1,
                                  ![i].cfg = jsonMarshal(mergedCfg(paths[i].filePath, eCfg, pCfg))]
  /\ UNCHANGED <<ctx, args, cfgFs, fs, runPc, eCfg, loaded, branch, paths, spawned,
                 gErr, numCheckFailed, firstFailed, runErr, stdout>>

\* runner.go:174-179.
TaskStat(i) ==
  /\ task[i].pc = "stat"
  /\ \E ok \in BOOLEAN :
       IF ok
       THEN /\ task' = [task EXCEPT ![i].pc = "read", ![i].fi = fs[paths[i].filePath].mode]
            /\ log' = log
       ELSE /\ task' = [task EXCEPT ![i].pc = "ret",
                                    ![i].res = HardErr("stat", paths[i].filePath)]
            /\ log' = log (+) SetToBag({Warn("Unable to read file", paths[i].filePath),
                                         Warn("stat error", paths[i].filePath)})
  /\ UNCHANGED <<ctx, args, cfgFs, fs, runPc, eCfg, pCfg, loaded, branch, paths, spawned,
                 gErr, numCheckFailed, firstFailed, runErr, stdout>>

\* runner.go:181-186.
TaskRead(i) ==
  /\ task[i].pc = "read"
  /\ \E ok \in BOOLEAN :
       IF ok
       THEN /\ task' = [task EXCEPT ![i].pc = "engine", ![i].in = fs[paths[i].filePath].content]
            /\ log' = log
       ELSE /\ task' = [task EXCEPT ![i].pc = "ret",
                                    ![i].res = HardErr("read", paths[i].filePath)]
            /\ log' = log (+) SetToBag({Warn("Unable to read file", paths[i].filePath),
                                         Warn("read error", paths[i].filePath)})
  /\ UNCHANGED <<ctx, args, cfgFs, fs, runPc, eCfg, pCfg, loaded, branch, paths, spawned,
                 gErr, numCheckFailed, firstFailed, runErr, stdout>>

\* A format that goes on to its output step whatever the engine's status.
afterEngineAlwaysOutput(status) == "output"

\* runner.go:199-209: format returns when InstantiateModule returned an
\* error, status 10 or any other, and goes on to its output step otherwise.
afterEngine(status) == IF status = "ok" THEN "output" ELSE "ret"

\* runner.go:188-209.
TaskEngine(i) ==
  /\ task[i].pc = "engine"
  /\ \E o \in EngineOutcomes(task[i].in) :
       CASE o.status = "exit10" ->
              /\ task' = [task EXCEPT ![i].pc = afterEngine(o.status),
                                      ![i].status = "exit10", ![i].res = Nil]
              /\ log' = IF warnUnknown(args.IgnoreUnknown, paths[i].ignoreUnknown)
                        THEN Logged(Warn("No parser could be inferred for file",
                                         paths[i].filePath))
                        ELSE log
         [] o.status = "fail" ->
              /\ task' = [task EXCEPT ![i].pc = afterEngine(o.status), ![i].status = "fail",
                                      ![i].res = HardErr("engine", paths[i].filePath)]
              /\ log' = log
         [] OTHER ->
              /\ task' = [task EXCEPT ![i].pc = afterEngine(o.status),
                                      ![i].status = "ok", ![i].out = o.out]
              /\ log' = log
  /\ UNCHANGED <<ctx, args, cfgFs, fs, runPc, eCfg, pCfg, loaded, branch, paths, spawned,
                 gErr, numCheckFailed, firstFailed, runErr, stdout>>

\* runner.go:211-217.  os.WriteFile truncates the file before it writes, so
\* a failed write leaves the old bytes or none; the permission bits of an
\* existing file stay as they are.
TaskOutput(i) ==
  /\ task[i].pc = "output"
  /\ CASE outputMode(args.Write, args.Check) = "write" ->
            /\ \E w \in {"ok", "failed", "truncated"} :
                 CASE w = "ok" ->
                        /\ fs' = [fs EXCEPT ![paths[i].filePath] =
                                                 writeFile(@, task[i].out, task[i].fi)]
                        /\ task' = [task EXCEPT ![i].pc = "check"]
                   [] w = "failed" ->
                        /\ fs' = fs
                        /\ task' = [task EXCEPT ![i].pc = "ret",
                                                ![i].res = HardErr("write", paths[i].filePath)]
                   [] OTHER ->
                        /\ fs' = [fs EXCEPT ![paths[i].filePath].content = ""]
                        /\ task' = [task EXCEPT ![i].pc = "ret",
                                                ![i].res = HardErr("write", paths[i].filePath)]
            /\ stdout' = stdout
       [] outputMode(args.Write, args.Check) = "print" ->
            /\ stdout' = Append(stdout, [msg |-> task[i].out, of |-> paths[i].filePath])
            /\ task' = [task EXCEPT ![i].pc = "check"]
            /\ fs' = fs
       [] OTHER ->
            /\ task' = [task EXCEPT ![i].pc = "check"]
            /\ UNCHANGED <<fs, stdout>>
  /\ UNCHANGED <<ctx, args, cfgFs, runPc, eCfg, pCfg, loaded, branch, paths, spawned,
                 gErr, numCheckFailed, firstFailed, runErr, log>>

\* runner.go:219-224.
TaskCheck(i) ==
  /\ task[i].pc = "check"
  /\ task' = [task EXCEPT ![i].pc = "ret",
                          ![i].res = checkResult(args.Check, task[i].in, task[i].out)]
  /\ log' = IF checkResult(args.Check, task[i].in, task[i].out) = errCheckFailed
            THEN Logged(Warn("needs formatting", paths[i].filePath))
            ELSE log
  /\ UNCHANGED <<ctx, args, cfgFs, fs, runPc, eCfg, pCfg, loaded, branch, paths, spawned,
                 gErr, numCheckFailed, firstFailed, runErr, stdout>>

\* runner.go:134-138: the closure counts the check failure of format.
TaskCount(i) ==
  /\ task[i].pc = "ret"
  /\ numCheckFailed' = IF isCheckFailed(task[i].res) THEN numCheckFailed + 1
                       ELSE numCheckFailed
  /\ task' = [task EXCEPT ![i].pc = "exit"]
  /\ UNCHANGED <<ctx, args, cfgFs, fs, runPc, eCfg, pCfg, loaded, branch, paths, spawned,
                 gErr, firstFailed, runErr, stdout, log>>

\* The closure returns to the errgroup, which records the error and marks
\* the task done (runner.go:129, 132, 138).
TaskExit(i) ==
  /\ task[i].pc = "exit"
  /\ gErr' = groupErr(gErr, task[i].res)
  /\ firstFailed' = IF firstFailed = 0 /\ task[i].res # Nil THEN i ELSE firstFailed
  /\ task' = [task EXCEPT ![i].pc = "done"]
  /\ UNCHANGED <<ctx, args, cfgFs, fs, runPc, eCfg, pCfg, loaded, branch, paths, spawned,
                 numCheckFailed, runErr, stdout, log>>

(***************************************************************************)
(* Run, from the join on.                                                  *)
(***************************************************************************)
\* runner.go:141: err := g.Wait().
RunWait ==
  /\ runPc = "spawn"
  /\ spawned = Len(paths)
  /\ waitReady(task)
  /\ runErr' = gErr
  /\ runPc' = "summary"
  /\ UNCHANGED <<ctx, args, cfgFs, fs, eCfg, pCfg, loaded, branch, paths, spawned, task,
                 gErr, numCheckFailed, firstFailed, stdout, log>>

\* runner.go:143-151.
RunSummary ==
  /\ runPc = "summary"
  /\ IF args.Check
     THEN IF numCheckFailed > 0
          THEN /\ log' = Logged([level |-> "warn", msg |-> "Code style issues found",
                                      of |-> "-", n |-> numCheckFailed])
               /\ stdout' = stdout
          ELSE /\ stdout' = Append(stdout, [msg |-> "All matched files use Prettier code style!",
                                            of |-> "-"])
               /\ log' = log
     ELSE UNCHANGED <<stdout, log>>
  /\ runPc' = "done"
  /\ UNCHANGED <<ctx, args, cfgFs, fs, eCfg, pCfg, loaded, branch, paths, spawned, task,
                 gErr, numCheckFailed, firstFailed, runErr>>

Next ==
  \/ RunEditorConfig
  \/ RunConfig
  \/ RunExpand
  \/ RunSpawn
  \/ \E i \in Tasks : TaskStart(i)
  \/ \E i \in Tasks : TaskStat(i)
  \/ \E i \in Tasks : TaskRead(i)
  \/ \E i \in Tasks : TaskEngine(i)
  \/ \E i \in Tasks : TaskOutput(i)
  \/ \E i \in Tasks : TaskCheck(i)
  \/ \E i \in Tasks : TaskCount(i)
  \/ \E i \in Tasks : TaskExit(i)
  \/ RunWait
  \/ RunSummary

Spec == Init /\ [][Next]_vars

SpecCfg == InitCfg /\ [][Next]_vars

SpecShared == InitShared /\ [][Next]_vars

(***************************************************************************)
(* Cancellation of the context the caller passed to Run.                   *)
(***************************************************************************)
\* The caller cancels ctx while Run is before the return of g.Wait.  Run
\* and format hand ctx on (runner.go:131, 134, 198) and never read
\* ctx.Done or ctx.Err; the errgroup is a plain Group without a context
\* (runner.go:127); the runtime is built from wazero.NewRuntimeConfig()
\* without close-on-context-done (runner.go:34), so the engine's outcomes
\* are the same under a cancelled ctx.  The tasks that had entered format
\* and those inside the engine at that instant are recorded.
CtxCancel ==
  /\ ~ctx.done
  /\ runPc \in {"editorconfig", "config", "expand", "spawn"}
  /\ ctx' = [done |-> TRUE,
             started |-> {i \in Tasks : task[i].starts > 0},
             inflight |-> {i \in Tasks : task[i].pc = "engine"}]
  /\ UNCHANGED <<args, cfgFs, fs, runPc, eCfg, pCfg, loaded, branch, paths, spawned,
                 task, gErr, numCheckFailed, firstFailed, runErr, stdout, log>>

\* The runs that may be cancelled: one or two files, with no config file.
InitCancel ==
  /\ args \in ArgSet({<<[kind |-> "file", file |-> Files[1]]>>,
                       <<[kind |-> "file", file |-> Files[1]], [kind |-> "file", file |-> Files[2]]>>},
                      {NoPath},
                      [NoConfig |-> {FALSE}, NoEditorConfig |-> {TRUE},
                       Check |-> {FALSE}, Write |-> BOOLEAN, IgnoreUnknown |-> {FALSE},
                       NoErrorOnUnmatchedPattern |-> {FALSE}])
  /\ cfgFs = {}
  /\ InitRun

NextCancel == Next \/ CtxCancel

SpecCancel == InitCancel /\ [][NextCancel]_vars

(***************************************************************************)
(* Properties of the fan-out, checked under Spec.                          *)
(***************************************************************************)
\* The tasks that have returned from format or from the closure.
Returned(i) == task[i].pc \in {"ret", "exit", "done"}

\* The lines format printed to standard output for file f.
PrintedFor(f) == {k \in 1..Len(stdout) : stdout[k].of = f}

\* C1: once Run is past g.Wait, there is one task per expanded path, each
\* was entered exactly once and each has terminated, whatever the other
\* tasks returned.
C1_AllTasksJoined ==
  runPc \in {"summary", "done"} =>
    /\ DOMAIN task = 1..Len(paths)
    /\ \A i \in 1..Len(paths) : task[i].pc = "done" /\ task[i].starts = 1

\* A run that returned with one task failed hard and another one, of a
\* later path, formatted to the end.
C1_Witness ==
  /\ runPc = "done"
  /\ \E i, j \in Tasks :
       /\ i < j
       /\ firstFailed = i
       /\ IsHard(task[i].res)
       /\ task[j].status = "ok" /\ task[j].res = Nil /\ task[j].pc = "done"

\* C2 as stated: with Check set no file content ever changes, whatever
\* Write is.
C2_CheckNeverMutates == args.Check => fs = InitFs

\* C2 amended: with Check set and Write not set no file content ever
\* changes.
C2_CheckOnlyNeverMutates == (args.Check /\ ~args.Write) => fs = InitFs

\* A check-only run that returned after the engine changed the bytes of a
\* file.
C2_Witness ==
  /\ runPc = "done"
  /\ args.Check /\ ~args.Write
  /\ \E i \in Tasks : task[i].status = "ok" /\ task[i].out # task[i].in

\* C3: a check run in which the engine's output for some file differs from
\* the bytes read returns a non-nil error.
C3_CheckMismatchFails ==
  (/\ runPc = "done"
   /\ args.Check
   /\ \E i \in Tasks : task[i].status = "ok" /\ task[i].out # task[i].in)
  => runErr # Nil

\* A check run that returned with one file mismatching and another file
\* clean.
C3_Witness ==
  /\ runPc = "done"
  /\ args.Check
  /\ \E i, j \in Tasks :
       /\ task[i].status = "ok" /\ task[i].out # task[i].in
       /\ task[j].status = "ok" /\ task[j].out = task[j].in /\ task[j].res = Nil

C5_Exit10IsSkipped ==
  /\ \A i \in Tasks :
       task[i].status = "exit10" =>
         /\ Returned(i)
         /\ task[i].res = Nil
         /\ fs[paths[i].filePath] = InitFs[paths[i].filePath]
         /\ PrintedFor(paths[i].filePath) = {}
         /\ CopiesIn(Warn("No parser could be inferred for file", paths[i].filePath), log)
              = IF ~args.IgnoreUnknown /\ ~paths[i].ignoreUnknown THEN 1 ELSE 0
  /\ numCheckFailed =
       Cardinality({j \in Tasks : /\ task[j].status # "exit10"
                                  /\ task[j].pc \in {"exit", "done"}
                                  /\ task[j].res = errCheckFailed})

\* A write-and-check run that returned with a file of a directory walk left
\* with status 10 and no warning, IgnoreUnknown not being set.
C5_Witness ==
  /\ runPc = "done"
  /\ args.Write /\ args.Check /\ ~args.IgnoreUnknown
  /\ \E i \in Tasks : task[i].status = "exit10" /\ paths[i].ignoreUnknown

(***************************************************************************)
(* Properties of the configuration, checked under SpecCfg.                 *)
(***************************************************************************)
\* The config file of the nearest directory that holds one, the first of
\* the list among those of that directory; NoPath when there is none.
RECURSIVE nearestFrom(_)
nearestFrom(dir) ==
  LET here == {k \in 1..Len(ConfigNames) : [dir |-> dir, name |-> ConfigNames[k]] \in cfgFs}
  IN IF here # {}
     THEN [dir |-> dir, name |-> ConfigNames[CHOOSE k \in here : \A m \in here : k <= m]]
     ELSE IF dir = MaxDepth THEN NoPath
     ELSE nearestFrom(dir + 1)

\* The config resolution of Run is over.
ConfigResolved == runPc \notin {"editorconfig", "config"}

\* The paths loadConfigFile was called with.
LoadedPaths == [k \in 1..Len(loaded) |-> loaded[k].path]

\* The file loadConfigFile was called with could not be read or decoded.
LoadFailed(l) == ~l.c.readable \/ l.c.syntax = "garbage"

\* C6: auto-discovery loads the config file of the nearest directory that
\* holds one, the first of the list among those of that directory.
C6_NearestDirectoryWins ==
  (ConfigResolved /\ args.Config = NoPath /\ ~args.NoConfig) =>
    LoadedPaths = IF nearestFrom(0) = NoPath THEN <<>> ELSE <<nearestFrom(0)>>

\* C7: a run whose auto-discovered config file could not be read or decoded
\* goes on with the empty document, expands the patterns and runs every
\* task to its end.
C7_BadDiscoveredConfigIsNotFatal ==
  (/\ runPc = "done"
   /\ args.Config = NoPath /\ ~args.NoConfig
   /\ Len(loaded) = 1 /\ LoadFailed(loaded[1]))
  => /\ pCfg = EmptyDoc
     /\ paths = expandPatterns(args)
     /\ DOMAIN task = 1..Len(paths)
     /\ \A i \in DOMAIN task : task[i].pc = "done"

\* C8: once the file --config names was found unreadable, Run has returned
\* a non-nil error, no pattern was expanded, no task exists, and no file
\* was written or printed.
C8_UnreadableExplicitConfigIsFatal ==
  (args.Config # NoPath /\ Len(loaded) >= 1 /\ ~loaded[1].c.readable) =>
    /\ runPc = "done"
    /\ IsHard(runErr)
    /\ paths = <<>>
    /\ task = <<>>
    /\ spawned = 0
    /\ stdout = <<>>
    /\ fs = InitFs

\* A run given --config that returned after the file was found unreadable.
C8_Witness ==
  /\ runPc = "done"
  /\ args.Config = ExplicitPath
  /\ Len(loaded) = 1 /\ loaded[1].path = ExplicitPath /\ ~loaded[1].c.readable

\* C9: Run takes one arm of the config switch, once, before any task
\* exists: with Config set it loads that file and no other, whatever
\* NoConfig and the directory chain hold; otherwise with NoConfig set it
\* loads nothing and the document is empty; otherwise it loads what
\* discovery finds.  The document of a successful load stays Run's pCfg.
C9_ConfigPrecedence ==
  /\ ~ConfigResolved => (branch = <<>> /\ loaded = <<>> /\ pCfg = EmptyDoc /\ task = <<>>)
  /\ ConfigResolved =>
       /\ Len(branch) = 1
       /\ args.Config # NoPath => (branch = <<"explicit">> /\ LoadedPaths = <<args.Config>>)
       /\ (args.Config = NoPath /\ args.NoConfig) =>
            (branch = <<"none">> /\ loaded = <<>> /\ pCfg = EmptyDoc)
       /\ (args.Config = NoPath /\ ~args.NoConfig) =>
            /\ branch = <<"auto">>
            /\ LoadedPaths = IF discoverConfig = NoPath THEN <<>> ELSE <<discoverConfig>>
       /\ (Len(loaded) = 1 /\ ~LoadFailed(loaded[1])) =>
            pCfg = loadConfigFile(loaded[1].path, loaded[1].c).doc
       /\ loaded = <<>> => pCfg = EmptyDoc

\* A run given both --config and --no-config over a chain holding a
\* discoverable config file, returned after its task formatted with the
\* document of the --config file.
C9_Witness ==
  /\ runPc = "done"
  /\ args.Config = ExplicitPath /\ args.NoConfig
  /\ discoverConfig # NoPath
  /\ LoadedPaths = <<ExplicitPath>>
  /\ pCfg = Doc1("tabWidth", "4")
  /\ \E i \in Tasks : task[i].status = "ok"

\* The editor-config defaults format starts from for any file.
EditorDefaults ==
  IF eCfg.parsed /\ eCfg.lookupOk THEN fillEditorConfig(eCfg.def, EmptyDoc) ELSE EmptyDoc

\* The values the serialized document cfg gives key k.
ValuesOf(cfg, k) == {kv[2] : kv \in {x \in cfg : x[1] = k}}

\* C10: the document a task passes to the engine holds the keys of the
\* editor-config defaults, of the formatter-config and filepath, and no
\* other; filepath is the path of the task's file, every other key of the
\* formatter-config has the formatter-config's value, and the remaining
\* keys have the editor-config default.
C10_EffectiveConfig ==
  \A i \in Tasks :
    (task[i].starts = 1 /\ paths[i].error = "") =>
      /\ {kv[1] : kv \in task[i].cfg} = DOMAIN EditorDefaults \cup DOMAIN pCfg \cup {"filepath"}
      /\ ValuesOf(task[i].cfg, "filepath") = {paths[i].filePath}
      /\ \A k \in DOMAIN pCfg \ {"filepath"} : ValuesOf(task[i].cfg, k) = {pCfg[k]}
      /\ \A k \in (DOMAIN EditorDefaults \ DOMAIN pCfg) \ {"filepath"} :
           ValuesOf(task[i].cfg, k) = {EditorDefaults[k]}

\* A task that built its document from a formatter-config holding filepath
\* and tabWidth and from editor-config defaults holding another tabWidth.
C10_Witness ==
  \E i \in Tasks :
    /\ task[i].starts = 1
    /\ "filepath" \in DOMAIN pCfg /\ pCfg["filepath"] # paths[i].filePath
    /\ "tabWidth" \in DOMAIN pCfg /\ "tabWidth" \in DOMAIN EditorDefaults
    /\ pCfg["tabWidth"] # EditorDefaults["tabWidth"]
    /\ "useTabs" \in DOMAIN EditorDefaults

(***************************************************************************)
(* Properties of the shared configuration, checked under SpecShared.       *)
(***************************************************************************)
\* The document Run resolved: that of the one successful load, else empty.
ResolvedDoc ==
  IF Len(loaded) = 1 /\ loadConfigFile(loaded[1].path, loaded[1].c).err = Nil
  THEN loadConfigFile(loaded[1].path, loaded[1].c).doc
  ELSE EmptyDoc

\* C11: from the fan-out on, whatever tasks have merged and in whatever
\* order, Run's pCfg is the document Run resolved, without a filepath key
\* or editor-config keys added, and the document every task passes to the
\* engine is the merge of that resolved document for its own file.
C11_BaseDocReadOnly ==
  runPc \in {"spawn", "summary", "done"} =>
    /\ pCfg = ResolvedDoc
    /\ \A i \in Tasks :
         (task[i].starts = 1 /\ paths[i].error = "") =>
           task[i].cfg = jsonMarshal(mergedCfg(paths[i].filePath, eCfg, ResolvedDoc))

\* Both tasks have merged, the second path's before the first's returned,
\* over a formatter-config and editor-config defaults that are not empty.
C11_Witness ==
  /\ Len(paths) = 2
  /\ task[1].starts = 1 /\ task[2].starts = 1
  /\ task[1].pc = "stat" /\ task[2].pc = "engine"
  /\ pCfg = Doc1("tabWidth", "4")
  /\ eCfg.parsed /\ eCfg.lookupOk /\ eCfg.def.indent_style = "tab"

(***************************************************************************)
(* Properties of the per-file pipeline, checked under Spec.                *)
(***************************************************************************)
FileOf(i) == paths[i].filePath

\* The task's os.WriteFile returned an error.
WriteFailed(i) == IsHard(task[i].res) /\ task[i].res.kind = "write"

\* What write mode leaves in a file the engine formatted: the engine's
\* output for the bytes the file had before Run, under the permission bits
\* the task saw when it examined the file.
WrittenAsFormatted(i) ==
  /\ task[i].in = InitFs[FileOf(i)].content
  /\ fs[FileOf(i)].content = task[i].out
  /\ fs[FileOf(i)].mode = task[i].fi
  /\ task[i].fi = InitFs[FileOf(i)].mode

\* C12 as stated: in write mode, after Run, every file on which the engine
\* succeeded holds exactly the engine's output for its original contents,
\* with the permission bits it had when the task examined it.
C12_EngineSuccessIsWritten ==
  (runPc = "done" /\ args.Write) =>
    \A i \in Tasks : task[i].status = "ok" => WrittenAsFormatted(i)

\* C12, amended: in write mode, after Run, every file on which the engine
\* succeeded and whose write did not fail holds exactly the engine's output
\* for its original contents, with the permission bits it had when the task
\* examined it.
C12_SuccessfulWriteIsExact ==
  (runPc = "done" /\ args.Write) =>
    \A i \in Tasks : (task[i].status = "ok" /\ ~WriteFailed(i)) => WrittenAsFormatted(i)

\* Run has returned in write mode after two files were reformatted and
\* written back, one of them with permission bits other than 0644.
C12_Witness ==
  /\ runPc = "done" /\ args.Write /\ Len(paths) = 2
  /\ \A i \in Tasks : /\ task[i].status = "ok" /\ ~WriteFailed(i)
                      /\ task[i].out = "fmt" /\ fs[FileOf(i)].content = "fmt"
  /\ \E i \in Tasks : fs[FileOf(i)].mode = "0755"

(***************************************************************************)
(* Cancellation, checked under SpecCancel.                                 *)
(***************************************************************************)
\* C13: once ctx is cancelled, no task that had not started by then invokes
\* the engine or writes a file, no engine invocation that was in flight
\* succeeds, and Run returns a non-nil error.
C13_CancellationObserved ==
  ctx.done =>
    /\ \A i \in Tasks \ ctx.started :
         /\ task[i].status = ""
         /\ task[i].pc \notin {"output", "check"}
         /\ fs[FileOf(i)] = InitFs[FileOf(i)]
    /\ \A i \in ctx.inflight : task[i].status # "ok"
    /\ runPc = "done" => runErr # Nil

(***************************************************************************)
(* Config file formats, checked under SpecCfg.                             *)
(***************************************************************************)
Formats == {"json", "yaml", "toml"}

\* C14: the document Run resolved from a config file written in one of the
\* three formats is the set of options the file expresses, and is what
\* loadConfigFile returns, without error, for the same options written in
\* each of the other formats.
C14_FormatIndependent ==
  (ConfigResolved /\ Len(loaded) = 1 /\ loaded[1].c.syntax \in Formats) =>
    /\ runErr = Nil
    /\ pCfg = loaded[1].c.doc
    /\ \A s \in Formats :
         loadConfigFile(loaded[1].path, [loaded[1].c EXCEPT !.syntax = s])
           = [doc |-> pCfg, err |-> Nil]

(***************************************************************************)
(* Properties of the fan-out over the expanded paths, checked under Spec.  *)
(***************************************************************************)
\* The task is between its os.Stat and its return from format.
InFormat(i) == task[i].pc \in {"stat", "read", "engine", "output", "check"}

\* C15: the expanded path list names each file once, whatever patterns
\* matched it, so no two tasks of a Run read, format or write the same file.
C15_PathsUnique ==
  /\ \A i, j \in 1..Len(paths) :
       (i # j /\ paths[i].error = "" /\ paths[j].error = "") =>
         paths[i].filePath # paths[j].filePath
  /\ \A i, j \in Tasks :
       (i # j /\ InFormat(i) /\ InFormat(j)) => FileOf(i) # FileOf(j)

\* Two patterns that both match a.js, a file and the directory holding it,
\* expanded to the two files of the tree, whose tasks are both about to
\* write.
C15_Witness ==
  /\ args.Patterns = <<[kind |-> "file", file |-> Files[1]], [kind |-> "dir", file |-> "."]>>
  /\ args.Write
  /\ Len(paths) = 2
  /\ \A i \in Tasks : task[i].pc = "output"

\* The task's format has gone through its output step and its comparison.
PastOutput(i) ==
  task[i].status = "ok" /\ task[i].pc \in {"ret", "exit", "done"} /\ ~WriteFailed(i)

\* C16: a file the engine formatted gets exactly one of the three output
\* treatments.  With Write it is overwritten, not printed, and no check
\* failure is reported or counted for it, whether or not Check is set; with
\* Check alone it is compared and left as it was; with neither it is
\* printed and left as it was.
C16_OutputModesExclusive ==
  /\ \A i \in Tasks :
       PastOutput(i) =>
         CASE args.Write ->
                /\ fs[FileOf(i)].content = task[i].out
                /\ PrintedFor(FileOf(i)) = {}
                /\ task[i].res # errCheckFailed
           [] args.Check ->
                /\ fs[FileOf(i)] = InitFs[FileOf(i)]
                /\ PrintedFor(FileOf(i)) = {}
                /\ (task[i].res = errCheckFailed) = (task[i].in # task[i].out)
           [] OTHER ->
                /\ fs[FileOf(i)] = InitFs[FileOf(i)]
                /\ PrintedFor(FileOf(i)) # {}
                /\ task[i].res # errCheckFailed
  /\ args.Write => numCheckFailed = 0

\* C17: the task of an expanded path that carries a resolution error
\* returns that error as a hard error, having merged no configuration,
\* examined and read no file, invoked no engine, written and printed
\* nothing; it is not counted as a check failure, and it makes the group's
\* error non-nil.
C17_ResolutionErrorIsHard ==
  \A i \in Tasks :
    (paths[i].error # "" /\ task[i].starts > 0) =>
      /\ task[i].pc \in {"exit", "done"}
      /\ task[i].res = HardErr("resolution", paths[i].error)
      /\ IsHard(task[i].res) /\ ~isCheckFailed(task[i].res)
      /\ task[i].cfg = {} /\ task[i].fi = "" /\ task[i].in = ""
      /\ task[i].status = "" /\ task[i].out = ""
      /\ PrintedFor(FileOf(i)) = {}
      /\ numCheckFailed <= Cardinality({j \in Tasks : paths[j].error = ""})
      /\ task[i].pc = "done" => gErr # Nil

\* Run has returned the resolution error of an unmatched pattern, after the
\* task of the other pattern reformatted its file and wrote it back.
C17_Witness ==
  /\ runPc = "done" /\ args.Write /\ ~args.Check
  /\ Len(paths) = 2
  /\ paths[1].error # "" /\ task[1].pc = "done" /\ task[1].starts = 1
  /\ paths[2].error = "" /\ task[2].status = "ok" /\ fs[FileOf(2)].content = "fmt"
  /\ runErr = HardErr("resolution", paths[1].error)

\* The tasks whose format ended in the check-failed condition.
CheckFailedTasks == {i \in Tasks : task[i].res = errCheckFailed}

\* The closing lines of check mode: the warnings that count the files with
\* style issues, and the all-clean lines on standard output.
SummaryWarnings == {e \in BagToSet(log) : e.msg = "Code style issues found"}

AllCleanLines ==
  {k \in 1..Len(stdout) : stdout[k].msg = "All matched files use Prettier code style!"}

\* C18: past the join the counter is the number of tasks that ended
\* check-failed, hard errors and status-10 skips not among them; no closing
\* line exists before every task is done or outside check mode; and a
\* check-mode Run that returned has emitted exactly one closing line, the
\* warning with that number when it is not zero, the all-clean line when
\* it is.
C18_CounterAndSummary ==
  /\ runPc \in {"summary", "done"} => numCheckFailed = Cardinality(CheckFailedTasks)
  /\ (SummaryWarnings # {} \/ AllCleanLines # {}) =>
       (runPc = "done" /\ args.Check /\ \A i \in Tasks : task[i].pc = "done")
  /\ (runPc = "done" /\ args.Check) =>
       IF Cardinality(CheckFailedTasks) > 0
       THEN /\ AllCleanLines = {}
            /\ SummaryWarnings = {[level |-> "warn", msg |-> "Code style issues found",
                                   of |-> "-", n |-> Cardinality(CheckFailedTasks)]}
            /\ \A e \in SummaryWarnings : CopiesIn(e, log) = 1
       ELSE /\ SummaryWarnings = {}
            /\ Cardinality(AllCleanLines) = 1

\* A check-mode Run over two files has returned: one task ended
\* check-failed, the other in a hard error, and the closing warning counts
\* one file.
C18_Witness ==
  /\ runPc = "done" /\ args.Check /\ Len(paths) = 2
  /\ Cardinality(CheckFailedTasks) = 1
  /\ \E i \in Tasks : IsHard(task[i].res)
  /\ numCheckFailed = 1
  /\ \E e \in SummaryWarnings : e.n = 1

\* The task could not examine or read its file, or the engine ended with
\* status 10 or with a hard failure.
EndedBeforeOutput(i) ==
  \/ task[i].status \in {"exit10", "fail"}
  \/ IsHard(task[i].res) /\ task[i].res.kind \in {"stat", "read", "engine"}

\* C19: a file whose task could not examine or read it, or on which the
\* engine ended with status 10 or a hard failure, has the contents and the
\* permission bits it had before Run, and nothing was printed for it.
C19_FailedFileUntouched ==
  \A i \in Tasks :
    (paths[i].error = "" /\ EndedBeforeOutput(i)) =>
      /\ fs[FileOf(i)] = InitFs[FileOf(i)]
      /\ PrintedFor(FileOf(i)) = {}

\* A write-mode Run over two files has returned: the engine failed on one
\* file, which kept its bytes, and the other was reformatted and written
\* back.
C19_Witness ==
  /\ runPc = "done" /\ args.Write /\ Len(paths) = 2
  /\ \E i, j \in Tasks :
       /\ task[i].status = "fail" /\ fs[FileOf(i)] = InitFs[FileOf(i)]
       /\ task[j].status = "ok" /\ fs[FileOf(j)].content = "fmt"

\* C20: the all-clean line of check mode is on standard output only if Run
\* returned nil: never when a task ended in a hard error or a resolution
\* error.
C20_AllCleanOnlyOnSuccess ==
  AllCleanLines # {} =>
    /\ runErr = Nil
    /\ \A i \in Tasks : ~IsHard(task[i].res)

====
